---------------------------- MODULE Spec2Model ----------------------------
(***************************************************************************)
(* A model of corerank.py: the indexed min-heap, the graph-of-words        *)
(* builder, the weighted k-core decomposition and the greedy keyword       *)
(* selection.  Array positions are 0-based as in the source; a Python list *)
(* is a TLA+ sequence, so position i of list h is h[i + 1] (see At).       *)
(* A heap element [key, name] is the tuple <<key, name>>.                  *)
(***************************************************************************)
EXTENDS Integers, Sequences, FiniteSets, TLC

VARIABLES
  pc,        \* position of the running function / outcome of the last call
  p,         \* the heap array (h in the heap functions, p in k_core_decomposition)
  vindex,    \* the name -> position index of the heap
  top,       \* the pair returned by the last heap_extract_min (<<>> before any)
  built,     \* build_min_heap has completed on p
  call,      \* the arguments <<i, key>> of the last heap_decrease_key call,
             \* <<>> when the last heap operation was another
  words,     \* the document: a sequence of tokens
  win_size,  \* the sliding window's size
  edges,     \* build_graph_of_words: the dict (v1, v2) -> count
  gi,        \* build_graph_of_words: i of the loop of line 79
  g,         \* the graph of words (NoGraph before it is built)
  gc,        \* k_core_decomposition: the working copy of g
  core,      \* the core numbers: name -> number
  neighbors, \* k_core_decomposition: the neighbors the loop of line 114 has left
  extracted, \* the names in the order k_core_decomposition extracted them
  wordset,   \* optimize: the set words of line 136, shrunk at line 152
  best_keywords,
  best_quality,  \* in units of 1 / LDen
  round,     \* optimize: i of the loop of line 139
  l,         \* optimize: the trade-off parameter, in units of 1 / LDen
  k          \* optimize: the number of keywords asked for

heapVars == <<p, vindex, top, built, call>>

graphVars == <<words, win_size, edges, gi, g>>

coreVars == <<gc, core, neighbors, extracted>>

optVars == <<wordset, best_keywords, best_quality, round, l, k>>

vars == <<pc, p, vindex, top, built, call, words, win_size, edges, gi, g,
          gc, core, neighbors, extracted,
          wordset, best_keywords, best_quality, round, l, k>>

-----------------------------------------------------------------------------
(* Bounds of the model.                                                    *)

MaxKey == 2

\* The names of the model in ascending lexicographic order.
TokOrd == <<"a", "b", "c", "x">>

\* The tokens of the documents and the vertices of the graphs.
Tokens == {"a", "b", "c", "x"}

\* The names held in the heap when it is driven on its own.
HeapNames == Tokens

Rank(t) == CHOOSE n \in DOMAIN TokOrd : TokOrd[n] = t

\* Python's s < t on the tokens (strings).
StrLess(s, t) == Rank(s) < Rank(t)

-----------------------------------------------------------------------------
(* Python containers.                                                      *)

At(h, i) == h[i + 1]

\* d[k] = v on a dict: overwrites, or adds the key.
Put(d, kk, v) == [x \in (DOMAIN d) \cup {kk} |-> IF x = kk THEN v ELSE d[x]]

\* d.pop(k) on a dict holding k.
Pop(d, kk) == [x \in (DOMAIN d) \ {kk} |-> d[x]]

EmptyDict == [x \in {} |-> 0]

Min(a, b) == IF a < b THEN a ELSE b

Max(a, b) == IF a > b THEN a ELSE b

\* s[a:b] for 0 <= a: the slice is clipped to the sequence.
Slice(s, a, b) == SubSeq(s, a + 1, Min(b, Len(s)))

\* sorted(S) for a set of tokens.
RECURSIVE Sorted(_)
Sorted(S) ==
  IF S = {} THEN <<>>
  ELSE LET m == CHOOSE x \in S : \A y \in S : Rank(x) <= Rank(y)
       IN <<m>> \o Sorted(S \ {m})

\* The sum of f over the keys K of f.
RECURSIVE SumOver(_, _)
SumOver(f, K) ==
  IF K = {} THEN 0
  ELSE LET x == CHOOSE y \in K : TRUE
       IN f[x] + SumOver(f, K \ {x})

Range(s) == {s[n] : n \in DOMAIN s}

\* Python's x < y on two [key, name] lists: by key, then by name.
PairLess(x, y) == x[1] < y[1] \/ (x[1] = y[1] /\ StrLess(x[2], y[2]))

Swap(h, i, j) == [h EXCEPT ![i + 1] = h[j + 1], ![j + 1] = h[i + 1]]

-----------------------------------------------------------------------------
(* The indexed min-heap.                                                   *)

parent(i) == (i - 1) \div 2

left(i) == 2 * i + 1

right(i) == 2 * (i + 1)

\* A min_heapify that never looks at the right child.
Smallest_LeftOnly(h, i) ==
  LET lc == left(i)
  IN IF lc < Len(h) /\ PairLess(At(h, lc), At(h, i)) THEN lc ELSE i

\* The position min_heapify picks among i and its children.
Smallest(h, i) ==
  LET lc == left(i)
      rc == right(i)
      s1 == IF lc < Len(h) /\ PairLess(At(h, lc), At(h, i)) THEN lc ELSE i
  IN IF rc < Len(h) /\ PairLess(At(h, rc), At(h, s1)) THEN rc ELSE s1

\* A swap of the array that leaves the index as it was.
SwapIndex_Stale(h2, i, s, vi) == vi

\* The index after the swap of positions i and s of h2 (h2 is h after the swap).
SwapIndex(h2, i, s, vi) ==
  LET a == At(h2, i)[2]
      b == At(h2, s)[2]
  IN [vi EXCEPT ![a] = vi[b], ![b] = vi[a]]

RECURSIVE min_heapify(_, _, _)
min_heapify(h, i, vi) ==
  LET s == Smallest(h, i)
  IN IF s # i
       THEN LET h2 == Swap(h, i, s)
            IN min_heapify(h2, s, SwapIndex(h2, i, s, vi))
       ELSE [h |-> h, vindex |-> vi]

RECURSIVE BuildFrom(_, _, _)
BuildFrom(h, i, vi) ==
  IF i < 0 THEN [h |-> h, vindex |-> vi]
  ELSE LET r == min_heapify(h, i, vi)
       IN BuildFrom(r.h, i - 1, r.vindex)

build_min_heap(h, vi) == BuildFrom(h, Len(h) \div 2 - 1, vi)

\* An emptiness test that also turns away a heap of one pair.
HeapEmpty_OrOne(h) == Len(h) <= 1

\* Line 41.
HeapEmpty(h) == Len(h) = 0

\* heap_extract_min on a non-empty heap: the heap and index it leaves.
heap_extract_min(h, vi) ==
  LET t  == At(h, 0)
      h1 == [h EXCEPT ![1] = h[Len(h)]]
      v1 == Put(vi, At(h1, 0)[2], 0)
      h2 == SubSeq(h1, 1, Len(h1) - 1)
      v2 == Pop(v1, t[2])
  IN min_heapify(h2, 0, v2)

\* A test that turns away a key equal to the current key too.
KeyRejected_OrEqual(h, i, key) == key >= At(h, i)[1]

\* Line 52.
KeyRejected(h, i, key) == key > At(h, i)[1]

\* A decrease-key that writes the key and never sifts the pair up.
SiftUp_None(h, i, vi) == [h |-> h, vindex |-> vi]

RECURSIVE SiftUp(_, _, _)
SiftUp(h, i, vi) ==
  IF i > 0 /\ At(h, i)[1] < At(h, parent(i))[1]
    THEN LET q  == parent(i)
             h2 == Swap(h, i, q)
         IN SiftUp(h2, q, SwapIndex(h2, i, q, vi))
    ELSE [h |-> h, vindex |-> vi]

\* heap_decrease_key with key <= the current key of position i.
heap_decrease_key(h, i, key, vi) ==
  SiftUp([h EXCEPT ![i + 1] = <<key, h[i + 1][2]>>], i, vi)

-----------------------------------------------------------------------------
(* The heap driven by any sequence of operations.                          *)

\* The index k_core_decomposition starts from: each name at its array position.
InitialIndex(h) == [n \in {h[j][2] : j \in DOMAIN h} |-> (CHOOSE j \in DOMAIN h : h[j][2] = n) - 1]

\* Arrays of [key, name] pairs with unique names.
HeapArrays ==
  {h \in UNION {[1..n -> (0..MaxKey) \X HeapNames] : n \in 0..Cardinality(HeapNames)} :
     \A a, b \in DOMAIN h : a # b => h[a][2] # h[b][2]}

NoGraph == [vs |-> <<>>, es |-> EmptyDict, vweight |-> EmptyDict]

GraphIdle ==
  /\ words = <<>>
  /\ win_size = 0
  /\ edges = EmptyDict
  /\ gi = 0
  /\ g = NoGraph

HeapIdle ==
  /\ p = <<>>
  /\ vindex = EmptyDict
  /\ top = <<>>
  /\ built = FALSE
  /\ call = <<>>

CoreIdle ==
  /\ gc = NoGraph
  /\ core = EmptyDict
  /\ neighbors = <<>>
  /\ extracted = <<>>

OptIdle ==
  /\ wordset = {}
  /\ best_keywords = {}
  /\ best_quality = 0
  /\ round = 0
  /\ l = 0
  /\ k = 0

InitHeap ==
  /\ GraphIdle
  /\ CoreIdle
  /\ OptIdle
  /\ p \in HeapArrays
  /\ vindex = InitialIndex(p)
  /\ top = <<>>
  /\ built = FALSE
  /\ call = <<>>
  /\ pc = "start"

BuildMinHeap ==
  LET r == build_min_heap(p, vindex)
  IN /\ p' = r.h
     /\ vindex' = r.vindex
     /\ built' = TRUE
     /\ pc' = "build_min_heap"
     /\ call' = <<>>
     /\ UNCHANGED <<top, graphVars, coreVars, optVars>>

HeapExtractMin ==
  IF HeapEmpty(p)
    THEN /\ pc' = "IndexError"
         /\ call' = <<>>
         /\ UNCHANGED <<p, vindex, top, built, graphVars, coreVars, optVars>>
    ELSE LET r == heap_extract_min(p, vindex)
         IN /\ top' = At(p, 0)
            /\ p' = r.h
            /\ vindex' = r.vindex
            /\ pc' = "heap_extract_min"
            /\ call' = <<>>
            /\ UNCHANGED <<built, graphVars, coreVars, optVars>>

HeapDecreaseKey ==
  \E i \in 0..(Len(p) - 1), key \in 0..MaxKey :
    /\ call' = <<i, key>>
    /\ IF KeyRejected(p, i, key)
      THEN /\ pc' = "ValueError"
           /\ UNCHANGED <<p, vindex, top, built, graphVars, coreVars, optVars>>
      ELSE LET r == heap_decrease_key(p, i, key, vindex)
           IN /\ p' = r.h
              /\ vindex' = r.vindex
              /\ pc' = "heap_decrease_key"
              /\ UNCHANGED <<top, built, graphVars, coreVars, optVars>>

NextHeap == BuildMinHeap \/ HeapExtractMin \/ HeapDecreaseKey

SpecHeap == InitHeap /\ [][NextHeap]_vars

-----------------------------------------------------------------------------
(* build_graph_of_words.                                                   *)

MaxLen == 6

MaxWin == 3

\* A co-occurrence count that never looks up the reversed key (v2, v1).
AddPair_NoReverse(e, v1, v2) ==
  IF v1 = v2 THEN e
  ELSE IF <<v1, v2>> \in DOMAIN e THEN [e EXCEPT ![<<v1, v2>>] = @ + 1]
  ELSE Put(e, <<v1, v2>>, 1)

\* Lines 70-77 and 84-91: one co-occurrence of v1 and v2.
AddPair(e, v1, v2) ==
  IF v1 = v2 THEN e
  ELSE IF <<v1, v2>> \in DOMAIN e THEN [e EXCEPT ![<<v1, v2>>] = @ + 1]
  ELSE IF <<v2, v1>> \in DOMAIN e THEN [e EXCEPT ![<<v2, v1>>] = @ + 1]
  ELSE Put(e, <<v1, v2>>, 1)

\* Lines 66-77: the loops over the first window, from (i, j) on.  win[i] and
\* win[j] raise IndexError past the end of win.
RECURSIVE FirstWindowLoop(_, _, _, _, _)
FirstWindowLoop(win, ws, i, j, e) ==
  IF i >= ws THEN [err |-> FALSE, edges |-> e]
  ELSE IF j >= ws THEN FirstWindowLoop(win, ws, i + 1, i + 2, e)
  ELSE IF i >= Len(win) \/ j >= Len(win) THEN [err |-> TRUE, edges |-> e]
  ELSE FirstWindowLoop(win, ws, i, j + 1, AddPair(e, At(win, i), At(win, j)))

\* A window that starts one position early and so holds win_size + 1 tokens.
WindowAt_OneEarly(w, ws, i) == Slice(w, i - ws, i + 1)

\* Line 80: the window that ends at position i.
WindowAt(w, ws, i) == Slice(w, i - ws + 1, i + 1)

\* Lines 81-91: the newest token win[-1] against win[j], from j up to ws - 2.
RECURSIVE SlideLoop(_, _, _, _)
SlideLoop(win, ws, j, e) ==
  IF j >= ws - 1 THEN e
  ELSE SlideLoop(win, ws, j + 1, AddPair(e, At(win, j), win[Len(win)]))

\* igraph's strength of a named vertex: the sum of its incident edges' weights.
Incident(es, v) == {kk \in DOMAIN es : kk[1] = v \/ kk[2] = v}

Strength(gr, v) == SumOver(gr.es, Incident(gr.es, v))

\* Lines 93-99.
MakeGraph(w, e) ==
  LET names == Sorted(Range(w))
      gr == [vs |-> names, es |-> e, vweight |-> EmptyDict]
  IN [gr EXCEPT !.vweight = [v \in Range(names) |-> Strength(gr, v)]]

Documents == UNION {[1..n -> Tokens] : n \in 1..MaxLen}

InitGraph ==
  /\ HeapIdle
  /\ CoreIdle
  /\ OptIdle
  /\ words \in Documents
  /\ win_size \in 1..MaxWin
  /\ edges = EmptyDict
  /\ gi = 0
  /\ g = NoGraph
  /\ pc = "start"

\* Lines 63-77.
FirstWindow ==
  /\ pc = "start"
  /\ LET r == FirstWindowLoop(Slice(words, 0, win_size), win_size, 0, 1, EmptyDict)
     IN /\ edges' = r.edges
        /\ pc' = IF r.err THEN "IndexError" ELSE "slide"
  /\ gi' = win_size
  /\ UNCHANGED <<words, win_size, g, heapVars, coreVars, optVars>>

\* Lines 79-91: one iteration of the loop over i.
SlideWindow ==
  /\ pc = "slide"
  /\ gi < Len(words)
  /\ edges' = SlideLoop(WindowAt(words, win_size, gi), win_size, 0, edges)
  /\ gi' = gi + 1
  /\ UNCHANGED <<pc, words, win_size, g, heapVars, coreVars, optVars>>

\* Lines 93-101.
ReturnGraph ==
  /\ pc = "slide"
  /\ gi >= Len(words)
  /\ g' = MakeGraph(words, edges)
  /\ pc' = "returned"
  /\ UNCHANGED <<words, win_size, edges, gi, heapVars, coreVars, optVars>>

NextGraph == FirstWindow \/ SlideWindow \/ ReturnGraph

SpecGraph == InitGraph /\ [][NextGraph]_vars

-----------------------------------------------------------------------------
(* k_core_decomposition.                                                   *)

MaxW == 2

Adjacent(gr, u, v) == <<u, v>> \in DOMAIN gr.es \/ <<v, u>> \in DOMAIN gr.es

\* gr.vs[gr.neighbors(v)]['name']: the names of v's neighbors, in vertex order.
Neighbors(gr, v) == SelectSeq(gr.vs, LAMBDA u : Adjacent(gr, u, v))

\* gr.delete_vertices(v): v goes, with its attributes and its incident edges.
DeleteVertex(gr, v) ==
  [vs      |-> SelectSeq(gr.vs, LAMBDA u : u # v),
   es      |-> [kk \in (DOMAIN gr.es) \ Incident(gr.es, v) |-> gr.es[kk]],
   vweight |-> [u \in (DOMAIN gr.vweight) \ {v} |-> gr.vweight[u]]]

\* gc and g are one object: no copy was made.
SharesStorage_Alias == TRUE

\* Line 104: gc is a deep copy, so a deletion from gc leaves g alone.
SharesStorage == FALSE

\* A neighbor's key that is the extracted key, whatever strength is left.
NewKey_KeepS(s, strength) == s

\* A neighbor's key that forgets the core number just assigned.
NewKey_NoMax(s, strength) == strength

\* Line 115: the key of a neighbor of the vertex extracted with key s.
NewKey(s, strength) == Max(s, strength)

\* The neighbors read from the caller's graph g, extracted vertices and all.
WorkingNeighbors_Original(v) == Neighbors(g, v)

\* Line 112, on the working copy gc.
WorkingNeighbors(v) == Neighbors(gc, v)

\* The pairs of every vertex but the first.
StrengthPairs_SkipFirst(gr) ==
  [j \in 1..(Len(gr.vs) - 1) |-> <<Strength(gr, gr.vs[j + 1]), gr.vs[j + 1]>>]

\* Line 106: the pairs [strength, name] in vertex order.
StrengthPairs(gr) == [j \in DOMAIN gr.vs |-> <<Strength(gr, gr.vs[j]), gr.vs[j]>>]

\* The simple graphs on the tokens S, each edge of weight 1..maxw.
GraphsOver(S, maxw) ==
  LET pairs == {ab \in S \X S : StrLess(ab[1], ab[2])}
  IN {MakeGraph(Sorted(S), [kk \in {x \in pairs : w[x] > 0} |-> w[kk]]) :
        w \in [pairs -> 0..maxw]}

InitCore ==
  /\ HeapIdle
  /\ CoreIdle
  /\ OptIdle
  /\ words = <<>>
  /\ win_size = 0
  /\ edges = EmptyDict
  /\ gi = 0
  /\ g \in UNION {GraphsOver(S, MaxW) : S \in SUBSET Tokens}
  /\ pc = "start"

\* Lines 104-108.
KCoreStart ==
  /\ pc = "start"
  /\ gc' = g
  /\ core' = [v \in Range(g.vs) |-> 0]
  /\ LET p0 == StrengthPairs(g)
         r  == build_min_heap(p0, InitialIndex(p0))
     IN p' = r.h /\ vindex' = r.vindex
  /\ built' = TRUE
  /\ pc' = "while"
  /\ UNCHANGED <<top, call, neighbors, extracted, graphVars, optVars>>

\* Lines 109-113: the heap is not empty; one vertex is extracted and deleted.
KCoreExtract ==
  /\ pc = "while"
  /\ Len(p) > 0
  /\ LET t == At(p, 0)
         r == heap_extract_min(p, vindex)
         n == WorkingNeighbors(t[2])
     IN /\ top' = t
        /\ p' = r.h
        /\ vindex' = r.vindex
        /\ core' = [core EXCEPT ![t[2]] = t[1]]
        /\ neighbors' = n
        /\ gc' = DeleteVertex(gc, t[2])
        /\ g' = IF SharesStorage THEN DeleteVertex(g, t[2]) ELSE g
        /\ extracted' = Append(extracted, t[2])
        /\ call' = <<>>
        /\ pc' = IF n = <<>> THEN "while" ELSE "for"
  /\ UNCHANGED <<built, words, win_size, edges, gi, optVars>>

\* Lines 114-116: one neighbor of the extracted vertex.
KCoreNeighbor ==
  /\ pc = "for"
  /\ LET v   == Head(neighbors)
         key == NewKey(top[1], Strength(gc, v))
     IN IF v \notin DOMAIN vindex
          THEN /\ pc' = "KeyError"
               /\ UNCHANGED <<p, vindex, neighbors, call>>
          ELSE IF KeyRejected(p, vindex[v], key)
            THEN /\ pc' = "ValueError"
                 /\ call' = <<vindex[v], key>>
                 /\ UNCHANGED <<p, vindex, neighbors>>
            ELSE LET r == heap_decrease_key(p, vindex[v], key, vindex)
                 IN /\ call' = <<vindex[v], key>>
                    /\ p' = r.h
                    /\ vindex' = r.vindex
                    /\ neighbors' = Tail(neighbors)
                    /\ pc' = IF Tail(neighbors) = <<>> THEN "while" ELSE "for"
  /\ UNCHANGED <<top, built, gc, core, extracted, graphVars, optVars>>

\* Lines 109 and 118: the heap is empty.
KCoreReturn ==
  /\ pc = "while"
  /\ Len(p) = 0
  /\ pc' = "returned"
  /\ UNCHANGED <<heapVars, coreVars, graphVars, optVars>>

NextCore == KCoreStart \/ KCoreExtract \/ KCoreNeighbor \/ KCoreReturn

SpecCore == InitCore /\ [][NextCore]_vars

-----------------------------------------------------------------------------
(* The keyword quality and optimize.  The trade-off parameter l and every  *)
(* quality are whole numbers of units of 1 / LDen, so that l = 1 is the    *)
(* command line's default 0.1 when LDen = 10; the arithmetic is exact.     *)

LDen == 10

MaxCore == 1

MaxK == 3

\* The values of l: -1, 0, 1 / LDen and 1.
LValues == {-LDen, 0, 1, LDen}

\* Line 141: no word selected yet.  "None" is not a token.
None == "None"

\* Lines 120-122.
core_rank(v, gr, cr) == SumOver(cr, Range(Neighbors(gr, v)))

RECURSIVE factorial(_)
factorial(n) == IF n <= 1 THEN 1 ELSE n * factorial(n - 1)

\* Lines 124-125.
comb(n, m) == (factorial(n) \div factorial(m)) \div factorial(n - m)

\* The edges of the subgraph of gr induced by the names S.
InducedEdges(gr, S) == {kk \in DOMAIN gr.es : kk[1] \in S /\ kk[2] \in S}

\* Lines 127-133, in units of 1 / LDen.
keyword_quality(keywords, gr, cr, lam) ==
  LET score == SumOver([w \in keywords |-> core_rank(w, gr, cr)], keywords)
      n     == Cardinality(keywords)
      h     == IF n >= 2 THEN comb(n, 2) - Cardinality(InducedEdges(gr, keywords)) ELSE 0
  IN LDen * score - lam * h

\* A comparison that lets an equal gain replace the best word.
Better_OrEqual(gain, max_gain) == gain >= max_gain

\* Line 145.
Better(gain, max_gain) == gain > max_gain

\* Lines 142-147: the scan of the sorted words ws, from the selection sel on.
RECURSIVE Scan(_, _)
Scan(ws, sel) ==
  IF ws = <<>> THEN sel
  ELSE LET w       == Head(ws)
           quality == keyword_quality(best_keywords \cup {w}, g, core, l)
           gain    == quality - best_quality
       IN Scan(Tail(ws),
               IF Better(gain, sel.max_gain)
                 THEN [max_gain |-> gain, best_word |-> w]
                 ELSE sel)

\* A best_quality that is overwritten with the gain.
NewQuality_Assign(bq, max_gain) == max_gain

\* Line 150.
NewQuality(bq, max_gain) == bq + max_gain

\* A round with no word selected that ends the selection with what it has.
NoWordOutcome_Return == "returned"

\* Lines 148-149: a round with no word selected raises ValueError.
NoWordOutcome == "ValueError"

InitOpt ==
  /\ HeapIdle
  /\ gc = NoGraph
  /\ neighbors = <<>>
  /\ extracted = <<>>
  /\ win_size = 0
  /\ edges = EmptyDict
  /\ gi = 0
  /\ g \in UNION {GraphsOver(S, 1) : S \in SUBSET Tokens}
  /\ words = g.vs
  /\ core \in [Range(g.vs) -> 0..MaxCore]
  /\ l \in LValues
  /\ k \in 0..MaxK
  /\ wordset = Range(words)
  /\ best_keywords = {}
  /\ best_quality = 0
  /\ round = 0
  /\ pc = "for"

\* Lines 139-152: one round of the loop over i.
OptimizeRound ==
  /\ pc = "for"
  /\ round < k
  /\ LET sel == Scan(Sorted(wordset), [max_gain |-> 0, best_word |-> None])
     IN IF sel.best_word = None
          THEN /\ pc' = NoWordOutcome
               /\ UNCHANGED <<wordset, best_keywords, best_quality, round>>
          ELSE /\ best_quality' = NewQuality(best_quality, sel.max_gain)
               /\ best_keywords' = best_keywords \cup {sel.best_word}
               /\ wordset' = wordset \ {sel.best_word}
               /\ round' = round + 1
               /\ UNCHANGED pc
  /\ UNCHANGED <<l, k, core, gc, neighbors, extracted, heapVars, graphVars>>

\* Lines 139 and 154: the rounds are over.
OptimizeReturn ==
  /\ pc = "for"
  /\ round >= k
  /\ pc' = "returned"
  /\ UNCHANGED <<heapVars, graphVars, coreVars, optVars>>

NextOpt == OptimizeRound \/ OptimizeReturn

SpecOpt == InitOpt /\ [][NextOpt]_vars

-----------------------------------------------------------------------------
(* Properties of the heap (SpecHeap).                                      *)

\* C2: once build_min_heap has run, every heap_extract_min on a non-empty
\* heap, whatever extractions and decrease-keys came before, returns a pair
\* whose key is the minimum of the keys held at that moment, and removes
\* exactly that pair.
ExtractMinReturnsMinimum ==
  [][(built /\ Len(p) > 0 /\ pc' = "heap_extract_min") =>
       /\ top' \in Range(p)
       /\ \A e \in Range(p) : top'[1] <= e[1]
       /\ Range(p') = Range(p) \ {top'}
       /\ Len(p') = Len(p) - 1]_vars

\* C2, witness: an extraction that left behind a pair of the same key and a
\* smaller name (decrease-key sifts up by key alone).
ExtractedAmongTies ==
  /\ built
  /\ pc = "heap_extract_min"
  /\ Len(p) >= 2
  /\ \E e \in Range(p) : e[1] = top[1] /\ StrLess(e[2], top[2])

\* C3: the index is exact: its keys are the names held in the array, and
\* each name's entry is the position of its pair.
IndexExact ==
  /\ DOMAIN vindex = {p[j][2] : j \in DOMAIN p}
  /\ \A j \in DOMAIN p : vindex[p[j][2]] = j - 1

\* C3, witness: a heap of three or more after a build, an extraction and a
\* decrease-key that moved its pair to the root.
IndexAfterAllOperations ==
  /\ built
  /\ top # <<>>
  /\ pc = "heap_decrease_key"
  /\ Len(p) >= 3
  /\ \E j \in DOMAIN p : j > 1 /\ PairLess(p[j], p[1])

\* C12: heap_decrease_key(h, i, key, vindex) raises the invalid-key error
\* exactly when key is strictly greater than the key at position i, and then
\* leaves the array and the index as they were; a key equal to or smaller
\* than the current key is accepted and becomes the key of that pair.
InvalidKeyExactlyWhenGreater ==
  [][call' # <<>> =>
       LET i    == call'[1]
           key  == call'[2]
           name == At(p, i)[2]
       IN /\ pc' \in {"ValueError", "heap_decrease_key"}
          /\ (pc' = "ValueError") <=> (key > At(p, i)[1])
          /\ pc' = "ValueError" => (p' = p /\ vindex' = vindex)
          /\ pc' = "heap_decrease_key" =>
               /\ name \in DOMAIN vindex'
               /\ At(p', vindex'[name]) = <<key, name>>]_vars

\* C12, witness: a call on a built heap of two or more, turned away for a
\* key one above the current key.
RejectedLargerKey ==
  /\ pc = "ValueError"
  /\ built
  /\ Len(p) >= 2
  /\ call # <<>>
  /\ call[2] = At(p, call[1])[1] + 1

\* C13: heap_extract_min on an empty heap raises the empty-heap error, and
\* only then; the array, the index and the last value returned stay as they
\* were, and no value is returned.
EmptyHeapRaises ==
  /\ [][(Len(p) = 0 /\ pc' \in {"IndexError", "heap_extract_min"}) =>
          (pc' = "IndexError" /\ p' = p /\ vindex' = vindex /\ top' = top)]_vars
  /\ [][pc' = "IndexError" => Len(p) = 0]_vars

\* C13, witness: the error raised on a heap that was built and then emptied
\* by extractions.
RaisedOnEmptiedHeap ==
  /\ pc = "IndexError"
  /\ built
  /\ top # <<>>
  /\ p = <<>>
  /\ vindex = EmptyDict

\* C17: once build_min_heap has run, after every build, extraction and
\* decrease-key the keys are in heap order: the key at parent(i) is at most
\* the key at i, for every position i > 0.
KeyHeapOrder ==
  built => \A i \in 1..(Len(p) - 1) : At(p, parent(i))[1] <= At(p, i)[1]

\* C17, witness: after a decrease-key, a heap of four whose keys are in heap
\* order while the last pair and its parent, below the root, are not in the
\* order of whole pairs that min_heapify compares by.
KeysOrderedPairsNot ==
  /\ built
  /\ pc = "heap_decrease_key"
  /\ Len(p) = 4
  /\ PairLess(At(p, 3), At(p, parent(3)))

-----------------------------------------------------------------------------
(* Properties of build_graph_of_words (SpecGraph).                         *)

\* The weight the edge table gives to the unordered pair {a, b}.
EdgeWeight(e, a, b) ==
  (IF <<a, b>> \in DOMAIN e THEN e[<<a, b>>] ELSE 0)
    + (IF <<b, a>> \in DOMAIN e THEN e[<<b, a>>] ELSE 0)

\* The position pairs i < j of w at most d apart that hold a and b.
PairCount(w, a, b, d) ==
  Cardinality({ij \in (DOMAIN w) \X (DOMAIN w) :
                 /\ ij[1] < ij[2]
                 /\ ij[2] - ij[1] <= d
                 /\ {w[ij[1]], w[ij[2]]} = {a, b}})

\* C4: a document shorter than the window completes normally and counts
\* every pair of distinct positions once; the document ["x"] yields one
\* vertex and no edges.
ShortDocumentIsOneWindow ==
  (Len(words) < win_size /\ pc # "start") =>
     /\ pc # "IndexError"
     /\ \A a, b \in Tokens :
          a # b => EdgeWeight(edges, a, b) = PairCount(words, a, b, Len(words))
     /\ (pc = "returned" /\ words = <<"x">>) =>
          (g.vs = <<"x">> /\ DOMAIN g.es = {})

Scenario == words = <<"a", "b", "c", "a", "b", "c">> /\ win_size = 3

\* C5 as stated: the scenario's three edges have weight 2 and its vertices
\* strength 4.
ScenarioWeightTwo ==
  (Scenario /\ pc = "returned") =>
     /\ g.es = (<<"a", "b">> :> 2) @@ (<<"a", "c">> :> 2) @@ (<<"b", "c">> :> 2)
     /\ \A v \in {"a", "b", "c"} : g.vweight[v] = 4

\* C5, amended: the scenario's three edges (a,b), (a,c), (b,c) have weight 3
\* each, and every vertex has strength 6.
ScenarioWeightThree ==
  (Scenario /\ pc = "returned") =>
     /\ g.vs = <<"a", "b", "c">>
     /\ g.es = (<<"a", "b">> :> 3) @@ (<<"a", "c">> :> 3) @@ (<<"b", "c">> :> 3)
     /\ \A v \in {"a", "b", "c"} : g.vweight[v] = 6

\* C5, witness: the scenario's graph has been built.
ScenarioBuilt == Scenario /\ pc = "returned" /\ g.vs = <<"a", "b", "c">>

\* C6: for a document at least as long as the window, the weight of {a, b}
\* is the number of position pairs i < j, j - i <= win_size - 1, holding a
\* and b, and a pair of tokens with no such position pair has no edge.
CoOccurrenceCount ==
  (pc = "returned" /\ Len(words) >= win_size) =>
     /\ g.es = edges
     /\ \A kk \in DOMAIN edges : edges[kk] >= 1
     /\ \A a, b \in Tokens :
          a # b => EdgeWeight(edges, a, b) = PairCount(words, a, b, win_size - 1)

\* C6, witness: a pair that lies in several overlapping windows of a
\* document longer than the window.
OverlappingWindowsCounted ==
  /\ pc = "returned"
  /\ win_size >= 3
  /\ Len(words) > win_size
  /\ \E n \in 2..(Len(words) - 2) :
       words[n] # words[n + 1] /\ EdgeWeight(edges, words[n], words[n + 1]) >= 2

\* C7: the edge table is that of a simple graph: no key joins a token to
\* itself, and no key is present in both orders.
SimpleEdgeTable ==
  \A kk \in DOMAIN edges : kk[1] # kk[2] /\ <<kk[2], kk[1]>> \notin DOMAIN edges

\* C7, witness: a document with a repeated token inside one window and a
\* pair of tokens met in both orders.
BothOrdersAndRepeat ==
  /\ pc = "returned"
  /\ win_size >= 2
  /\ \E n \in 1..(Len(words) - 1) : words[n] = words[n + 1]
  /\ \E m, n \in 1..(Len(words) - 1) :
       /\ words[m] # words[m + 1]
       /\ words[n] = words[m + 1]
       /\ words[n + 1] = words[m]
       /\ EdgeWeight(edges, words[m], words[m + 1]) >= 2

-----------------------------------------------------------------------------
(* Properties of k_core_decomposition (SpecCore).                          *)

\* C1: the core numbers are non-decreasing in extraction order: a vertex
\* extracted before another never has the larger core number.
CoreMonotoneInExtractionOrder ==
  \A m, n \in DOMAIN extracted :
    m < n => core[extracted[m]] <= core[extracted[n]]

\* C1, witness: a finished run over three or more vertices whose core
\* numbers differ; the last vertex, extracted with no edge left, holds the
\* largest.
CoreRaisedAboveStrength ==
  /\ pc = "returned"
  /\ Len(extracted) >= 3
  /\ core[extracted[1]] < core[extracted[Len(extracted)]]

\* C11: k_core_decomposition never changes the caller's graph g: no step of
\* the run alters its vertices, its edges or its weights; the deletions fall
\* on the private copy gc only.
CallerGraphUntouched == [][g' = g]_vars

\* C11, witness: a finished run that deleted every vertex of the working
\* copy of a graph of three or more vertices with edges.
WorkingCopyEmptied ==
  /\ pc = "returned"
  /\ gc.vs = <<>>
  /\ Len(g.vs) >= 3
  /\ DOMAIN g.es # {}

\* The core numbers of the vertices extracted so far.
PreviousCores == {core[extracted[m]] : m \in DOMAIN extracted}

MaxOf(S) == CHOOSE x \in S : \A y \in S : y <= x

\* C14: the core number assigned to a vertex at its extraction is the
\* maximum of its strength in the working graph at that moment, after all
\* earlier deletions, and of the core numbers assigned before.
CoreIsMaxOfStrengthAndEarlier ==
  [][Len(extracted') = Len(extracted) + 1 =>
       LET v == extracted'[Len(extracted')]
       IN core'[v] = MaxOf({Strength(gc, v)} \cup PreviousCores)]_vars

\* The strength the last extracted vertex had when it was extracted: the
\* weights of its edges of g to the vertices not extracted before it.
StrengthAtExtraction ==
  LET v    == extracted[Len(extracted)]
      rest == {u \in Range(g.vs) : \A m \in DOMAIN extracted : extracted[m] # u}
  IN SumOver(g.es, {kk \in Incident(g.es, v) : kk[1] \in rest \/ kk[2] \in rest})

\* C14, witness: a vertex just extracted with edges rest and a core number
\* above its strength, the core number of an earlier vertex.
CoreFromEarlierVertex ==
  /\ pc = "for"
  /\ Len(extracted) >= 2
  /\ StrengthAtExtraction > 0
  /\ core[extracted[Len(extracted)]] > StrengthAtExtraction

\* C15: on graphs of positive weights neither heap error occurs during
\* k_core_decomposition: the heap is not empty when a vertex is extracted,
\* every neighbor handed to heap_decrease_key is in the index, and its new
\* key is at most its current key.
NoHeapErrorInKCore ==
  /\ pc \notin {"IndexError", "KeyError", "ValueError"}
  /\ \A m \in DOMAIN neighbors :
       /\ neighbors[m] \in DOMAIN vindex
       /\ NewKey(top[1], Strength(gc, neighbors[m]))
            <= At(p, vindex[neighbors[m]])[1]

\* C15, witness: a neighbor's key lowered below its first key, its strength
\* in g, and above the key just extracted, with another neighbor still to go.
KeyLoweredMidLoop ==
  /\ pc = "for"
  /\ call # <<>>
  /\ \E v \in DOMAIN vindex :
       /\ At(p, vindex[v])[1] = call[2]
       /\ call[2] < Strength(g, v)
       /\ call[2] > top[1]

\* C16: k_core_decomposition terminates: while it runs it is never stuck,
\* and every step shortens the heap or, the heap kept, the list of neighbors
\* still to visit; each extraction adds one vertex not extracted before, so
\* the vertices extracted and the vertices in the heap are, without
\* repetition, the vertices of g; at the return the heap is empty and every
\* vertex has been extracted and holds a core number.
EveryVertexExtractedOnce ==
  /\ [](/\ pc \in {"start", "while", "for", "returned"}
        /\ (pc = "for" => neighbors # <<>>)
        /\ (pc # "start" =>
             /\ \A m, n \in DOMAIN extracted :
                  m # n => extracted[m] # extracted[n]
             /\ Range(extracted) \cap DOMAIN vindex = {}
             /\ Range(extracted) \cup DOMAIN vindex = Range(g.vs)
             /\ Len(extracted) + Len(p) = Len(g.vs)
             /\ DOMAIN core = Range(g.vs))
        /\ (pc = "returned" => /\ Len(p) = 0
                               /\ Range(extracted) = Range(g.vs)))
  /\ [][(pc \in {"while", "for"} /\ pc' # "returned") =>
          \/ /\ Len(p') = Len(p) - 1
             /\ Len(extracted') = Len(extracted) + 1
          \/ /\ Len(p') = Len(p)
             /\ Len(neighbors') = Len(neighbors) - 1]_vars
  /\ [][pc' = "returned" => (pc = "while" /\ Len(p) = 0)]_vars

\* C16, witness: a finished run over four vertices, every one extracted.
AllFourExtracted ==
  /\ pc = "returned"
  /\ Len(extracted) = 4
  /\ Range(extracted) = Tokens
  /\ DOMAIN g.es # {}

-----------------------------------------------------------------------------
(* Properties of optimize (SpecOpt).                                       *)

\* C8: a normal return hands back exactly k keywords, all of them tokens of
\* words (a set: they are distinct).
ReturnsExactlyK ==
  pc = "returned" =>
    /\ Cardinality(best_keywords) = k
    /\ best_keywords \subseteq Range(words)

\* C8, witness: a return of two or more keywords that leaves words unchosen.
ReturnedSomeOfTheWords ==
  /\ pc = "returned"
  /\ k >= 2
  /\ Cardinality(best_keywords) = k
  /\ wordset # {}

\* The distinct tokens with a positive core-rank.
PositiveWords == {w \in Range(words) : core_rank(w, g, core) > 0}

BeyondPositive == l >= 0 /\ k > Cardinality(PositiveWords)

SingleX == words = <<"x">> /\ k = 1

GreedyMonotoneImprovement ==
  [][/\ best_quality' >= best_quality
     /\ best_keywords' # best_keywords =>
          \E w \in wordset \ best_keywords :
            /\ best_keywords' = best_keywords \cup {w}
            /\ keyword_quality(best_keywords \cup {w}, g, core, l) - best_quality > 0
            /\ best_quality' > best_quality]_vars

\* C10, witness: two rounds done with a positive l, the two chosen words
\* not adjacent, so that the penalty was part of the second gain.
ChoseDespitePenalty ==
  /\ round = 2
  /\ l > 0
  /\ best_quality > 0
  /\ \E a, b \in best_keywords : a # b /\ ~Adjacent(g, a, b)

\* The gain of the candidate w in the round about to run.
Gain(w) == keyword_quality(best_keywords \cup {w}, g, core, l) - best_quality

\* C18: the word a round adds has the maximum gain of the round's
\* candidates and is the first, in ascending order, of the candidates of
\* that gain: no candidate of equal gain comes before it.
FirstMaximalWordChosen ==
  [][round' = round + 1 =>
       \E w \in wordset :
         /\ best_keywords' = best_keywords \cup {w}
         /\ wordset' = wordset \ {w}
         /\ \A u \in wordset : Gain(u) <= Gain(w)
         /\ \A u \in wordset : Gain(u) = Gain(w) => ~StrLess(u, w)]_vars

\* C18, witness: a first round that chose a word over a later word of the
\* same gain and over an earlier word of a smaller gain.
TieWentToEarlierWord ==
  /\ round = 1
  /\ \E w \in best_keywords :
       /\ best_keywords = {w}
       /\ \E u \in wordset :
            /\ StrLess(w, u)
            /\ keyword_quality({u}, g, core, l) = best_quality
       /\ \E t \in wordset :
            /\ StrLess(t, w)
            /\ keyword_quality({t}, g, core, l) < best_quality

\* C19: throughout optimize, and so at the end of every round,
\* best_quality is keyword_quality of the chosen set, the chosen set and the
\* remaining candidates are disjoint, and together they are the distinct
\* tokens of the document.
QualityBookkeeping ==
  /\ best_quality = keyword_quality(best_keywords, g, core, l)
  /\ best_keywords \cap wordset = {}
  /\ best_keywords \cup wordset = Range(words)

\* C19, witness: three rounds done with candidates left, and a penalty
\* that is part of best_quality.
ThreeRoundsWithPenalty ==
  /\ round = 3
  /\ wordset # {}
  /\ l # 0
  /\ best_quality # keyword_quality(best_keywords, g, core, 0)

=============================================================================
